---- MODULE Spec2Model ----
(***************************************************************************)
(* Isometric tile-map sandbox (src/script.js): the grid model, the         *)
(* rotation / projection / picking transforms, the per-tick terrain        *)
(* mutation, and the event handlers that drive them.                       *)
(***************************************************************************)
EXTENDS Integers, Sequences, FiniteSets, TLC

VARIABLES
    map,            \* map[y][x] = [type, height]            (script.js:33)
    objects,        \* insertion-ordered list of objects     (script.js:34)
    selectedTool,   \* tool name or null                     (script.js:35)
    selectedButtons, \* tool buttons with class 'selected'   (script.js:338)
    hoveredTile,    \* [x, y] or nullTile                    (script.js:36)
    lastUpdateTime, \* timestamp of the last tick            (script.js:37)
    rotation,       \* 0..3                                  (script.js:39)
    message,        \* messageBox.textContent                (script.js:297)
    timestamp       \* timestamp of the last frame callback  (script.js:285)

vars == <<map, objects, selectedTool, selectedButtons, hoveredTile,
          lastUpdateTime, rotation, message, timestamp>>

---------------------------------------------------------------------------
(* Game configuration, script.js:10-13, 15-16, 38 *)

gridSize == 16
isoTileWidth == 64
isoTileHeight == 32
heightStep == isoTileHeight \div 2
canvasWidth == (gridSize + 1) * isoTileWidth
canvasExtraHeight == 400
canvasHeight == (gridSize * isoTileHeight) \div 2 + canvasExtraHeight
updateInterval == 500
canvasTopOffset == 100

GRASS == 0
WATER == 1
STONE == 2
SAND == 3
TileTypeIds == {GRASS, WATER, STONE, SAND}

(* OBJECT_TYPES, script.js:26-31: the effect of each kind *)
ToolNames == {"fountain", "excavator", "obelisk", "tree"}

(* Variant: the effects of excavator and obelisk exchanged *)
OBJECT_TYPES_swapped(tool) ==
    CASE tool = "fountain"  -> "raise_water"
      [] tool = "excavator" -> "raise_terrain"
      [] tool = "obelisk"   -> "lower_terrain"
      [] tool = "tree"      -> "spread_grass"

OBJECT_TYPES(tool) ==
    CASE tool = "fountain"  -> "raise_water"
      [] tool = "excavator" -> "lower_terrain"
      [] tool = "obelisk"   -> "raise_terrain"
      [] tool = "tree"      -> "spread_grass"

(* JavaScript's null, for the tool name and for the hovered tile *)
null == "null"
nullTile == [x |-> -1, y |-> -1]

Idx == 0 .. (gridSize - 1)
Cell(cx, cy) == [x |-> cx, y |-> cy]
Abs(n) == IF n < 0 THEN -n ELSE n

---------------------------------------------------------------------------
(* Coordinate conversion *)

(* Variant: the 270 degree case repeats the 90 degree formula *)
getRotatedCoords_transposed(x, y) ==
    CASE rotation = 0 -> Cell(x, y)
      [] rotation = 1 -> Cell(gridSize - 1 - y, x)
      [] rotation = 2 -> Cell(gridSize - 1 - x, gridSize - 1 - y)
      [] rotation = 3 -> Cell(gridSize - 1 - y, x)
      [] OTHER -> Cell(x, y)

(* script.js:43-51: view-space (x, y) to map coordinates *)
getRotatedCoords(x, y) ==
    CASE rotation = 0 -> Cell(x, y)
      [] rotation = 1 -> Cell(gridSize - 1 - y, x)
      [] rotation = 2 -> Cell(gridSize - 1 - x, gridSize - 1 - y)
      [] rotation = 3 -> Cell(y, gridSize - 1 - x)
      [] OTHER -> Cell(x, y)

(* script.js:53-61 *)
getInverseRotatedCoords(x, y) ==
    CASE rotation = 0 -> Cell(x, y)
      [] rotation = 1 -> Cell(y, gridSize - 1 - x)
      [] rotation = 2 -> Cell(gridSize - 1 - x, gridSize - 1 - y)
      [] rotation = 3 -> Cell(gridSize - 1 - y, x)
      [] OTHER -> Cell(x, y)

(* script.js:63-67 *)
isoToScreen(x, y) ==
    [x |-> (x - y) * (isoTileWidth \div 2) + (canvasWidth \div 2)
             - (isoTileWidth \div 2),
     y |-> (x + y) * (isoTileHeight \div 2)]

(* script.js:76-98: does the view-space cell (x, y) accept the pointer?     *)
(* transformedX and transformedY are kept multiplied by isoTileWidth / 2,   *)
(* which is exact: dx / 32 and dy / 16 are dyadic, |t| < 1 iff |32 t| < 32. *)
tileContains(x, y, mouseX, mouseY) ==
    LET adjustedMouseY == mouseY - canvasTopOffset
        mapCoords == getRotatedCoords(x, y)
        tile == map[mapCoords.y][mapCoords.x]
        screenPos == isoToScreen(x, y)
        tileY == screenPos.y - tile.height * heightStep
        dx == mouseX - (screenPos.x + isoTileWidth \div 2)
        dy == adjustedMouseY - tileY
        transformedX == dx + dy * (isoTileWidth \div isoTileHeight)
        transformedY == dy * (isoTileWidth \div isoTileHeight) - dx
    IN  /\ mouseX >= screenPos.x
        /\ mouseX <= screenPos.x + isoTileWidth
        /\ adjustedMouseY >= tileY - isoTileHeight
        /\ adjustedMouseY <= tileY + isoTileHeight
        /\ Abs(transformedX) < isoTileWidth \div 2
        /\ Abs(transformedY) < isoTileWidth \div 2

(* Variant: the scan goes on to the end, the last accepting cell is kept *)
screenToIso_lastMatch(mouseX, mouseY) ==
    LET hits == {i \in 0 .. (gridSize * gridSize - 1) :
                    tileContains(i % gridSize, i \div gridSize, mouseX, mouseY)}
    IN  IF hits = {} THEN nullTile
        ELSE LET last == CHOOSE i \in hits : \A j \in hits : i >= j
             IN  getRotatedCoords(last % gridSize, last \div gridSize)

(* script.js:69-103: the first accepting cell in ascending (y, x) order *)
screenToIso(mouseX, mouseY) ==
    LET hits == {i \in 0 .. (gridSize * gridSize - 1) :
                    tileContains(i % gridSize, i \div gridSize, mouseX, mouseY)}
    IN  IF hits = {} THEN nullTile
        ELSE LET first == CHOOSE i \in hits : \A j \in hits : i <= j
             IN  getRotatedCoords(first % gridSize, first \div gridSize)

---------------------------------------------------------------------------
(* Game logic *)

(* Math.floor(Math.random() * 2) of script.js:112 for the cell (x, y): one   *)
(* of a bounded family of outcomes of the 256 draws, named by a seed.       *)
randomBit(seed, x, y) ==
    CASE seed = 0 -> 0
      [] seed = 1 -> 1
      [] seed = 2 -> (x + y) % 2
      [] OTHER    -> (x + (y \div 2)) % 2

(* Variant: the Manhattan-distance test dropped, a 5 x 5 square lake *)
inLake_square(x, y) ==
    LET lakeY == gridSize \div 2
        lakeX == gridSize \div 2
    IN  \E i \in -2 .. 2 : \E j \in -2 .. 2 :
            /\ lakeY + i = y /\ lakeX + j = x

(* script.js:116-124: the cells the lake loops overwrite *)
inLake(x, y) ==
    LET lakeY == gridSize \div 2
        lakeX == gridSize \div 2
    IN  \E i \in -2 .. 2 : \E j \in -2 .. 2 :
            /\ Abs(i) + Abs(j) < 3
            /\ lakeY + i \in Idx /\ lakeX + j \in Idx
            /\ lakeY + i = y /\ lakeX + j = x

(* script.js:107-125 *)
generateMap(seed) ==
    [y \in Idx |-> [x \in Idx |->
        IF inLake(x, y)
        THEN [type |-> WATER, height |-> 0]
        ELSE [type |-> GRASS, height |-> randomBit(seed, x, y) + 1]]]

(* Variant: neighbours wrap around the grid edges *)
getNeighbors_wrap(x, y) ==
    LET directions == << [dx |-> -1, dy |-> 0], [dx |-> 1, dy |-> 0],
                         [dx |-> 0, dy |-> -1], [dx |-> 0, dy |-> 1] >>
    IN  [k \in 1 .. 4 |-> Cell((x + directions[k].dx) % gridSize,
                               (y + directions[k].dy) % gridSize)]

(* script.js:272-283: the in-grid 4-neighbours, in direction order *)
getNeighbors(x, y) ==
    LET directions == << [dx |-> -1, dy |-> 0], [dx |-> 1, dy |-> 0],
                         [dx |-> 0, dy |-> -1], [dx |-> 0, dy |-> 1] >>
        cand == [k \in 1 .. 4 |-> Cell(x + directions[k].dx, y + directions[k].dy)]
    IN  SelectSeq(cand, LAMBDA c : c.x >= 0 /\ c.x < gridSize
                                   /\ c.y >= 0 /\ c.y < gridSize)

(* One entry of the changes array: height and type are optional fields *)
Change(cx, cy, hasH, h, hasT, t) ==
    [x |-> cx, y |-> cy, hasHeight |-> hasH, height |-> h,
     hasType |-> hasT, type |-> t]

(* Variant: <= in place of <, one level past the clamp *)
raiseTerrainChange_inclusive(m, obj, n) ==
    LET tile == m[obj.y][obj.x]
        neighborTile == m[n.y][n.x]
    IN  IF obj.effect = "raise_terrain" /\ neighborTile.height <= tile.height + 2
        THEN << Change(n.x, n.y, TRUE, neighborTile.height + 1, FALSE, 0) >>
        ELSE << >>

(* Variant: the neighbour is raised whatever its height *)
raiseTerrainChange_unclamped(m, obj, n) ==
    LET neighborTile == m[n.y][n.x]
    IN  IF obj.effect = "raise_terrain"
        THEN << Change(n.x, n.y, TRUE, neighborTile.height + 1, FALSE, 0) >>
        ELSE << >>

(* script.js:251-253 *)
raiseTerrainChange(m, obj, n) ==
    LET tile == m[obj.y][obj.x]
        neighborTile == m[n.y][n.x]
    IN  IF obj.effect = "raise_terrain" /\ neighborTile.height < tile.height + 2
        THEN << Change(n.x, n.y, TRUE, neighborTile.height + 1, FALSE, 0) >>
        ELSE << >>

(* Variant: no floor at height 0 *)
lowerTerrainChange_noFloor(m, obj, n) ==
    LET neighborTile == m[n.y][n.x]
    IN  IF obj.effect = "lower_terrain"
        THEN << Change(n.x, n.y, TRUE, neighborTile.height - 1, FALSE, 0) >>
        ELSE << >>

(* script.js:254-256 *)
lowerTerrainChange(m, obj, n) ==
    LET neighborTile == m[n.y][n.x]
    IN  IF obj.effect = "lower_terrain" /\ neighborTile.height > 0
        THEN << Change(n.x, n.y, TRUE, neighborTile.height - 1, FALSE, 0) >>
        ELSE << >>

(* Variant: the water keeps the neighbour's height, not the owner's *)
raiseWaterChange_neighborHeight(m, obj, n) ==
    LET neighborTile == m[n.y][n.x]
    IN  IF obj.effect = "raise_water" /\ neighborTile.type # WATER
        THEN << Change(n.x, n.y, TRUE, neighborTile.height, TRUE, WATER) >>
        ELSE << >>

(* Variant: the neighbour turns to Sand *)
raiseWaterChange_sand(m, obj, n) ==
    LET tile == m[obj.y][obj.x]
        neighborTile == m[n.y][n.x]
    IN  IF obj.effect = "raise_water" /\ neighborTile.type # WATER
        THEN << Change(n.x, n.y, TRUE, tile.height, TRUE, SAND) >>
        ELSE << >>

(* script.js:257-259 *)
raiseWaterChange(m, obj, n) ==
    LET tile == m[obj.y][obj.x]
        neighborTile == m[n.y][n.x]
    IN  IF obj.effect = "raise_water" /\ neighborTile.type # WATER
        THEN << Change(n.x, n.y, TRUE, tile.height, TRUE, WATER) >>
        ELSE << >>

(* Variant: the tree also levels the neighbour to height 0 *)
spreadGrassChange_levelled(m, obj, n) ==
    LET neighborTile == m[n.y][n.x]
    IN  IF obj.effect = "spread_grass" /\ neighborTile.type # GRASS
        THEN << Change(n.x, n.y, TRUE, 0, TRUE, GRASS) >>
        ELSE << >>

(* script.js:260-262 *)
spreadGrassChange(m, obj, n) ==
    LET neighborTile == m[n.y][n.x]
    IN  IF obj.effect = "spread_grass" /\ neighborTile.type # GRASS
        THEN << Change(n.x, n.y, FALSE, 0, TRUE, GRASS) >>
        ELSE << >>

(* script.js:250-262: what one object pushes for one neighbour, read from m *)
neighborChanges(m, obj, n) ==
    raiseTerrainChange(m, obj, n) \o lowerTerrainChange(m, obj, n)
    \o raiseWaterChange(m, obj, n) \o spreadGrassChange(m, obj, n)

RECURSIVE objectChangesFrom(_, _, _, _)
objectChangesFrom(m, obj, ns, k) ==
    IF k > Len(ns) THEN << >>
    ELSE neighborChanges(m, obj, ns[k]) \o objectChangesFrom(m, obj, ns, k + 1)

(* script.js:248-263: everything one object pushes, in direction order *)
objectChanges(m, obj) ==
    objectChangesFrom(m, obj, getNeighbors(obj.x, obj.y), 1)

(* script.js:267-268: one change written into the map in place *)
applyChange(m, c) ==
    LET withHeight == IF c.hasHeight
                      THEN [m EXCEPT ![c.y][c.x].height = c.height]
                      ELSE m
    IN  IF c.hasType
        THEN [withHeight EXCEPT ![c.y][c.x].type = c.type]
        ELSE withHeight

RECURSIVE applyChanges_reversed(_, _, _)
(* Variant: the changes written from the last one back, the first one wins *)
applyChanges_reversed(m, changes, k) ==
    IF k > Len(changes) THEN m
    ELSE applyChange(applyChanges_reversed(m, changes, k + 1), changes[k])

RECURSIVE applyChanges(_, _, _)
(* script.js:266-269: changes.forEach, from entry k on *)
applyChanges(m, changes, k) ==
    IF k > Len(changes) THEN m
    ELSE applyChanges(applyChange(m, changes[k]), changes, k + 1)

RECURSIVE collectChanges(_, _, _)
(* script.js:246-264: objects.forEach, every object reading the same map m *)
collectChanges(m, objs, k) ==
    IF k > Len(objs) THEN << >>
    ELSE objectChanges(m, objs[k]) \o collectChanges(m, objs, k + 1)

(* Variant: each object's deltas written before the next object reads *)
RECURSIVE applyEachObject(_, _, _)
applyEachObject(m, objs, k) ==
    IF k > Len(objs) THEN m
    ELSE applyEachObject(applyChanges(m, objectChanges(m, objs[k]), 1),
                         objs, k + 1)

updateMap_sequential(m, objs) == applyEachObject(m, objs, 1)

(* script.js:245-270: the map after one tick *)
updateMap(m, objs) ==
    applyChanges(m, collectChanges(m, objs, 1), 1)

---------------------------------------------------------------------------
(* Event handlers and the frame callback *)

NoToolMessage == "Select a tool first!"
OccupiedMessage == "There's already an object here!"

(* script.js:343: tool.charAt(0).toUpperCase() + tool.slice(1) + " selected!" *)
selectedMessage(tool) ==
    CASE tool = "fountain"  -> "Fountain selected!"
      [] tool = "excavator" -> "Excavator selected!"
      [] tool = "obelisk"   -> "Obelisk selected!"
      [] tool = "tree"      -> "Tree selected!"

(* script.js:323: objects.find(obj => obj.x === x && obj.y === y) *)
existingObject(x, y) ==
    \E k \in 1 .. Len(objects) : objects[k].x = x /\ objects[k].y = y

(* script.js:304-309 *)
handleCanvasMouseMove(mouseX, mouseY) ==
    /\ hoveredTile' = screenToIso(mouseX, mouseY)
    /\ UNCHANGED <<map, objects, selectedTool, selectedButtons,
                   lastUpdateTime, rotation, message, timestamp>>

(* script.js:311-313 *)
handleCanvasMouseLeave ==
    /\ hoveredTile' = nullTile
    /\ UNCHANGED <<map, objects, selectedTool, selectedButtons,
                   lastUpdateTime, rotation, message, timestamp>>

(* Variant: no look-up of an existing object on the cell *)
handleCanvasClick_noCheck ==
    /\ IF selectedTool = null
       THEN /\ message' = NoToolMessage
            /\ UNCHANGED objects
       ELSE IF hoveredTile # nullTile
            THEN /\ objects' = Append(objects,
                        [x |-> hoveredTile.x, y |-> hoveredTile.y,
                         type |-> selectedTool,
                         effect |-> OBJECT_TYPES(selectedTool)])
                 /\ UNCHANGED message
            ELSE UNCHANGED <<objects, message>>
    /\ UNCHANGED <<map, selectedTool, selectedButtons, hoveredTile,
                   lastUpdateTime, rotation, timestamp>>

(* Variant: the hovered cell is looked at before the tool, so a click    *)
(* without a tool on a free cell leaves an object of no kind there        *)
handleCanvasClick_cellFirst ==
    /\ IF hoveredTile # nullTile
       THEN IF existingObject(hoveredTile.x, hoveredTile.y)
            THEN /\ message' = OccupiedMessage
                 /\ UNCHANGED objects
            ELSE /\ objects' = Append(objects,
                        [x |-> hoveredTile.x, y |-> hoveredTile.y,
                         type |-> selectedTool,
                         effect |-> IF selectedTool = null THEN null
                                    ELSE OBJECT_TYPES(selectedTool)])
                 /\ UNCHANGED message
       ELSE IF selectedTool = null
            THEN /\ message' = NoToolMessage
                 /\ UNCHANGED objects
            ELSE UNCHANGED <<objects, message>>
    /\ UNCHANGED <<map, selectedTool, selectedButtons, hoveredTile,
                   lastUpdateTime, rotation, timestamp>>

(* Variant: a click with a tool but without a hovered cell is answered *)
(* with a notification                                                 *)
handleCanvasClick_missNotified ==
    /\ IF selectedTool = null
       THEN /\ message' = NoToolMessage
            /\ UNCHANGED objects
       ELSE IF hoveredTile # nullTile
            THEN IF existingObject(hoveredTile.x, hoveredTile.y)
                 THEN /\ message' = OccupiedMessage
                      /\ UNCHANGED objects
                 ELSE /\ objects' = Append(objects,
                             [x |-> hoveredTile.x, y |-> hoveredTile.y,
                              type |-> selectedTool,
                              effect |-> OBJECT_TYPES(selectedTool)])
                      /\ UNCHANGED message
            ELSE /\ message' = OccupiedMessage
                 /\ UNCHANGED objects
    /\ UNCHANGED <<map, selectedTool, selectedButtons, hoveredTile,
                   lastUpdateTime, rotation, timestamp>>

(* script.js:315-331 *)
handleCanvasClick ==
    /\ IF selectedTool = null
       THEN /\ message' = NoToolMessage
            /\ UNCHANGED objects
       ELSE IF hoveredTile # nullTile
            THEN IF existingObject(hoveredTile.x, hoveredTile.y)
                 THEN /\ message' = OccupiedMessage
                      /\ UNCHANGED objects
                 ELSE /\ objects' = Append(objects,
                             [x |-> hoveredTile.x, y |-> hoveredTile.y,
                              type |-> selectedTool,
                              effect |-> OBJECT_TYPES(selectedTool)])
                      /\ UNCHANGED message
            ELSE UNCHANGED <<objects, message>>
    /\ UNCHANGED <<map, selectedTool, selectedButtons, hoveredTile,
                   lastUpdateTime, rotation, timestamp>>

(* Variant: the other buttons keep their 'selected' class *)
handleToolSelect_keepOthers(tool) ==
    /\ IF selectedTool = tool
       THEN /\ selectedTool' = null
            /\ selectedButtons' = selectedButtons \ {tool}
            /\ UNCHANGED message
       ELSE /\ selectedTool' = tool
            /\ selectedButtons' = selectedButtons \cup {tool}
            /\ message' = selectedMessage(tool)
    /\ UNCHANGED <<map, objects, hoveredTile, lastUpdateTime, rotation,
                   timestamp>>

(* script.js:333-345 *)
handleToolSelect(tool) ==
    /\ IF selectedTool = tool
       THEN /\ selectedTool' = null
            /\ selectedButtons' = selectedButtons \ {tool}
            /\ UNCHANGED message
       ELSE /\ selectedTool' = tool
            /\ selectedButtons' = (selectedButtons \ ToolNames) \cup {tool}
            /\ message' = selectedMessage(tool)
    /\ UNCHANGED <<map, objects, hoveredTile, lastUpdateTime, rotation,
                   timestamp>>

(* The outcomes of generateMap, one per seed, computed once *)
AllSeeds == 0 .. 3
generatedMaps == [seed \in AllSeeds |-> generateMap(seed)]

(* Variant: the reset also turns the view back to rotation 0 *)
resetGame_restoreRotation(seed) ==
    /\ objects' = << >>
    /\ selectedTool' = null
    /\ selectedButtons' = selectedButtons \ ToolNames
    /\ hoveredTile' = nullTile
    /\ map' = generatedMaps[seed]
    /\ rotation' = 0
    /\ UNCHANGED <<lastUpdateTime, message, timestamp>>

(* Variant: the reset regenerates the terrain but keeps the objects *)
resetGame_keepObjects(seed) ==
    /\ selectedTool' = null
    /\ selectedButtons' = selectedButtons \ ToolNames
    /\ hoveredTile' = nullTile
    /\ map' = generatedMaps[seed]
    /\ UNCHANGED <<objects, lastUpdateTime, rotation, message, timestamp>>

(* script.js:347-353 *)
resetGame(seed) ==
    /\ objects' = << >>
    /\ selectedTool' = null
    /\ selectedButtons' = selectedButtons \ ToolNames
    /\ hoveredTile' = nullTile
    /\ map' = generatedMaps[seed]
    /\ UNCHANGED <<lastUpdateTime, rotation, message, timestamp>>

(* Variant: rotate-left turns the wrong way round by one step *)
rotatedLeft_off(r) == (r - 2 + 4) % 4

(* Variant: the remainder is taken without adding 4 first, which in     *)
(* JavaScript leaves -1 for rotation 0                                  *)
rotatedLeft_noOffset(r) == r - 1

(* script.js:361 *)
rotatedLeft(r) == (r - 1 + 4) % 4

(* Variant: the modulus is 3 *)
rotatedRight_mod3(r) == (r + 1) % 3

(* script.js:364 *)
rotatedRight(r) == (r + 1) % 4

(* script.js:360-362 *)
rotateLeft ==
    /\ rotation' = rotatedLeft(rotation)
    /\ UNCHANGED <<map, objects, selectedTool, selectedButtons, hoveredTile,
                   lastUpdateTime, message, timestamp>>

(* Variant: turning the view drops the hovered cell *)
rotateRight_clearsHover ==
    /\ rotation' = rotatedRight(rotation)
    /\ hoveredTile' = nullTile
    /\ UNCHANGED <<map, objects, selectedTool, selectedButtons,
                   lastUpdateTime, message, timestamp>>

(* script.js:363-365 *)
rotateRight ==
    /\ rotation' = rotatedRight(rotation)
    /\ UNCHANGED <<map, objects, selectedTool, selectedButtons, hoveredTile,
                   lastUpdateTime, message, timestamp>>

(* script.js:285-294: one frame callback; draw() reads the state only *)
gameLoop(ts) ==
    /\ ts > timestamp
    /\ timestamp' = ts
    /\ IF ts - lastUpdateTime > updateInterval
       THEN /\ map' = updateMap(map, objects)
            /\ lastUpdateTime' = ts
       ELSE UNCHANGED <<map, lastUpdateTime>>
    /\ UNCHANGED <<objects, selectedTool, selectedButtons, hoveredTile,
                   rotation, message>>

(* The pointer position over the middle of map cell c's top face, as the   *)
(* cell is drawn now: script.js:128-131 and the translate of script.js:184 *)
tileCentre(c) ==
    LET view == getInverseRotatedCoords(c.x, c.y)
        screenPos == isoToScreen(view.x, view.y)
        tileY == screenPos.y - map[c.y][c.x].height * heightStep
    IN  [x |-> screenPos.x + isoTileWidth \div 2, y |-> tileY + canvasTopOffset]

---------------------------------------------------------------------------
(* Rendering: the side walls the two renderers fill for a view cell.  A    *)
(* wall is kept as the neighbour it stands against (X: the view cell       *)
(* x + 1, Y: the view cell y + 1), its height in levels and its path.      *)

Point(px, py) == [x |-> px, y |-> py]

Wall(axis, diff, path) == [axis |-> axis, diff |-> diff, path |-> path]

(* Variant: beyond the grid edge the neighbour counts as level with the tile *)
drawTile_noEdgeWall(x, y) ==
    LET rotated == getRotatedCoords(x, y)
        tile == map[rotated.y][rotated.x]
        screenPos == isoToScreen(x, y)
        tileY == screenPos.y - tile.height * heightStep
        rightNeighborRotated ==
            IF x < gridSize - 1 THEN getRotatedCoords(x + 1, y) ELSE nullTile
        bottomNeighborRotated ==
            IF y < gridSize - 1 THEN getRotatedCoords(x, y + 1) ELSE nullTile
        heightDiffX ==
            IF rightNeighborRotated # nullTile
            THEN tile.height
                 - map[rightNeighborRotated.y][rightNeighborRotated.x].height
            ELSE 0
        heightDiffY ==
            IF bottomNeighborRotated # nullTile
            THEN tile.height
                 - map[bottomNeighborRotated.y][bottomNeighborRotated.x].height
            ELSE 0
    IN  IF tile.type \notin TileTypeIds THEN << >>
        ELSE (IF heightDiffX > 0
              THEN << Wall("X", heightDiffX,
                        << Point(screenPos.x, tileY),
                           Point(screenPos.x, tileY + heightDiffX * heightStep),
                           Point(screenPos.x + isoTileWidth \div 2,
                                 tileY + isoTileHeight \div 2
                                     + heightDiffX * heightStep),
                           Point(screenPos.x + isoTileWidth \div 2,
                                 tileY + isoTileHeight \div 2) >>) >>
              ELSE << >>)
             \o
             (IF heightDiffY > 0
              THEN << Wall("Y", heightDiffY,
                        << Point(screenPos.x + isoTileWidth, tileY),
                           Point(screenPos.x + isoTileWidth,
                                 tileY + heightDiffY * heightStep),
                           Point(screenPos.x + isoTileWidth \div 2,
                                 tileY + isoTileHeight \div 2
                                     + heightDiffY * heightStep),
                           Point(screenPos.x + isoTileWidth \div 2,
                                 tileY + isoTileHeight \div 2) >>) >>
              ELSE << >>)

(* script.js:127-166: the side walls drawTile fills for the view cell      *)
(* (x, y), in the order of the fills; the top face follows them            *)
drawTile(x, y) ==
    LET rotated == getRotatedCoords(x, y)
        tile == map[rotated.y][rotated.x]
        screenPos == isoToScreen(x, y)
        tileY == screenPos.y - tile.height * heightStep
        rightNeighborRotated ==
            IF x < gridSize - 1 THEN getRotatedCoords(x + 1, y) ELSE nullTile
        bottomNeighborRotated ==
            IF y < gridSize - 1 THEN getRotatedCoords(x, y + 1) ELSE nullTile
        heightDiffX ==
            IF rightNeighborRotated # nullTile
            THEN tile.height
                 - map[rightNeighborRotated.y][rightNeighborRotated.x].height
            ELSE tile.height
        heightDiffY ==
            IF bottomNeighborRotated # nullTile
            THEN tile.height
                 - map[bottomNeighborRotated.y][bottomNeighborRotated.x].height
            ELSE tile.height
    IN  IF tile.type \notin TileTypeIds THEN << >>
        ELSE (IF heightDiffX > 0
              THEN << Wall("X", heightDiffX,
                        << Point(screenPos.x, tileY),
                           Point(screenPos.x, tileY + heightDiffX * heightStep),
                           Point(screenPos.x + isoTileWidth \div 2,
                                 tileY + isoTileHeight \div 2
                                     + heightDiffX * heightStep),
                           Point(screenPos.x + isoTileWidth \div 2,
                                 tileY + isoTileHeight \div 2) >>) >>
              ELSE << >>)
             \o
             (IF heightDiffY > 0
              THEN << Wall("Y", heightDiffY,
                        << Point(screenPos.x + isoTileWidth, tileY),
                           Point(screenPos.x + isoTileWidth,
                                 tileY + heightDiffY * heightStep),
                           Point(screenPos.x + isoTileWidth \div 2,
                                 tileY + isoTileHeight \div 2
                                     + heightDiffY * heightStep),
                           Point(screenPos.x + isoTileWidth \div 2,
                                 tileY + isoTileHeight \div 2) >>) >>
              ELSE << >>)

(* script_option2.js:151-160 *)
drawRightSide(screenPos, tileY, diff) ==
    << Point(screenPos.x + isoTileWidth, tileY),
       Point(screenPos.x + isoTileWidth, tileY + diff * heightStep),
       Point(screenPos.x + isoTileWidth \div 2,
             tileY + isoTileHeight \div 2 + diff * heightStep),
       Point(screenPos.x + isoTileWidth \div 2, tileY + isoTileHeight \div 2) >>

(* script_option2.js:162-171 *)
drawBottomSide(screenPos, tileY, diff) ==
    << Point(screenPos.x, tileY),
       Point(screenPos.x, tileY + diff * heightStep),
       Point(screenPos.x + isoTileWidth \div 2,
             tileY + isoTileHeight \div 2 + diff * heightStep),
       Point(screenPos.x + isoTileWidth \div 2, tileY + isoTileHeight \div 2) >>

(* script_option2.js:173-184 *)
drawTopSide(screenPos, tileY, diff) ==
    << Point(screenPos.x + isoTileWidth, tileY),
       Point(screenPos.x + isoTileWidth, tileY - diff * heightStep),
       Point(screenPos.x + isoTileWidth \div 2,
             tileY - isoTileHeight \div 2 - diff * heightStep),
       Point(screenPos.x + isoTileWidth \div 2, tileY - isoTileHeight \div 2) >>

(* script_option2.js:186-197 *)
drawLeftSide(screenPos, tileY, diff) ==
    << Point(screenPos.x, tileY),
       Point(screenPos.x, tileY - diff * heightStep),
       Point(screenPos.x + isoTileWidth \div 2,
             tileY - isoTileHeight \div 2 - diff * heightStep),
       Point(screenPos.x + isoTileWidth \div 2, tileY - isoTileHeight \div 2) >>

(* script_option2.js:199-243: the side walls its drawTile fills for the    *)
(* view cell (x, y), in the order of the fills                             *)
option2_drawTile(x, y) ==
    LET rotated == getRotatedCoords(x, y)
        tile == map[rotated.y][rotated.x]
        screenPos == isoToScreen(x, y)
        tileY == screenPos.y - tile.height * heightStep
        neighborHeightX ==
            IF x < gridSize - 1
            THEN LET neighborCoords == getRotatedCoords(x + 1, y)
                 IN  map[neighborCoords.y][neighborCoords.x].height
            ELSE 0
        neighborHeightY ==
            IF y < gridSize - 1
            THEN LET neighborCoords == getRotatedCoords(x, y + 1)
                 IN  map[neighborCoords.y][neighborCoords.x].height
            ELSE 0
        wallHeightX == tile.height - neighborHeightX
        wallHeightY == tile.height - neighborHeightY
        wallX(path) == IF wallHeightX > 0
                       THEN << Wall("X", wallHeightX, path) >> ELSE << >>
        wallY(path) == IF wallHeightY > 0
                       THEN << Wall("Y", wallHeightY, path) >> ELSE << >>
    IN  IF tile.type \notin TileTypeIds THEN << >>
        ELSE CASE rotation = 0 ->
                    wallY(drawRightSide(screenPos, tileY, wallHeightY))
                    \o wallX(drawBottomSide(screenPos, tileY, wallHeightX))
               [] rotation = 1 ->
                    wallX(drawLeftSide(screenPos, tileY, wallHeightX))
                    \o wallY(drawBottomSide(screenPos, tileY, wallHeightY))
               [] rotation = 2 ->
                    wallY(drawLeftSide(screenPos, tileY, wallHeightY))
                    \o wallX(drawTopSide(screenPos, tileY, wallHeightX))
               [] rotation = 3 ->
                    wallX(drawRightSide(screenPos, tileY, wallHeightX))
                    \o wallY(drawTopSide(screenPos, tileY, wallHeightY))
               [] OTHER -> << >>

---------------------------------------------------------------------------
(* The bounded environments.  Six specifications run the same handlers     *)
(* under different inputs:                                                 *)
(*   Spec         every handler, all four tools, frames that come faster   *)
(*                than the update interval (no tick);                      *)
(*   SpecPick     every handler, one tool, frames that tick, so the        *)
(*                pointer meets rotated and mutated terrain;               *)
(*   SpecTerrain  objects already placed, then ticks and resets;           *)
(*   SpecGrowth   obelisks already placed, then a long run of ticks;       *)
(*   SpecClock    frames of three different periods, nothing else;         *)
(*   SpecHover    every handler, the pointer held at one canvas point,     *)
(*                two tools, frames that tick.                             *)

MaxFastFrames == 1
MaxPickTicks == 1
MaxTicks == 4
MaxPlaced == 2

FastFrame == updateInterval \div 2
SlowFrame == updateInterval + 100

PointerCells == {Cell(5, 5), Cell(6, 5)}
PickTools == {"obelisk"}
TerrainCells == {Cell(5, 5), Cell(6, 5), Cell(7, 5), Cell(0, 0)}

(* State after script.js:355-371 ran: listeners registered, resetGame() *)
(* done, the first frame pending.                                       *)
InitWith(seeds) ==
    /\ \E seed \in seeds : map = generatedMaps[seed]
    /\ objects = << >>
    /\ selectedTool = null
    /\ selectedButtons = {}
    /\ hoveredTile = nullTile
    /\ lastUpdateTime = 0
    /\ rotation = 0
    /\ message = ""
    /\ timestamp = 0

PointerMove ==
    \/ \E c \in PointerCells :
            handleCanvasMouseMove(tileCentre(c).x, tileCentre(c).y)
    \/ handleCanvasMouseMove(0, 0)

FastFrames ==
    /\ timestamp + FastFrame <= MaxFastFrames * FastFrame
    /\ gameLoop(timestamp + FastFrame)

UiSeeds == {0}

Init == InitWith(UiSeeds)

Next ==
    \/ PointerMove
    \/ handleCanvasMouseLeave
    \/ handleCanvasClick
    \/ \E tool \in ToolNames : handleToolSelect(tool)
    \/ \E seed \in UiSeeds : resetGame(seed)
    \/ rotateLeft
    \/ rotateRight
    \/ FastFrames

Spec == Init /\ [][Next]_vars

PickFrames ==
    /\ timestamp + SlowFrame <= MaxPickTicks * SlowFrame
    /\ gameLoop(timestamp + SlowFrame)

PickSeeds == {3}

InitPick == InitWith(PickSeeds)

NextPick ==
    \/ PointerMove
    \/ handleCanvasMouseLeave
    \/ handleCanvasClick
    \/ \E tool \in PickTools : handleToolSelect(tool)
    \/ \E seed \in PickSeeds : resetGame(seed)
    \/ rotateLeft
    \/ rotateRight
    \/ PickFrames

SpecPick == InitPick /\ [][NextPick]_vars

(* The object a click with the tool `kind` leaves on cell c, script.js:329 *)
placed(c, kind) ==
    [x |-> c.x, y |-> c.y, type |-> kind, effect |-> OBJECT_TYPES(kind)]

(* Object lists that clicks before the first tick can build: at most     *)
(* MaxPlaced objects on distinct cells of TerrainCells.                  *)
RECURSIVE Placements(_)
Placements(n) ==
    IF n = 0 THEN {<< >>}
    ELSE LET shorter == Placements(n - 1)
         IN  shorter \cup
             {Append(objs, placed(c, kind)) :
                 objs \in {o \in shorter : Len(o) = n - 1},
                 c \in TerrainCells, kind \in ToolNames}

distinctCells(objs) ==
    \A i \in 1 .. Len(objs) : \A j \in 1 .. Len(objs) :
        i # j => ~(objs[i].x = objs[j].x /\ objs[i].y = objs[j].y)

TerrainPlacements == {objs \in Placements(MaxPlaced) : distinctCells(objs)}

(* The state after those clicks: the tool of the last click still        *)
(* selected, the pointer still over the cell of the last click           *)
InitTerrain ==
    /\ \E seed \in AllSeeds : map = generatedMaps[seed]
    /\ objects \in TerrainPlacements
    /\ selectedTool = IF objects = << >> THEN null
                      ELSE objects[Len(objects)].type
    /\ selectedButtons = IF objects = << >> THEN {}
                         ELSE {objects[Len(objects)].type}
    /\ hoveredTile = IF objects = << >> THEN nullTile
                     ELSE Cell(objects[Len(objects)].x, objects[Len(objects)].y)
    /\ lastUpdateTime = 0
    /\ rotation = 0
    /\ message = IF objects = << >> THEN ""
                 ELSE selectedMessage(objects[Len(objects)].type)
    /\ timestamp = 0

TerrainFrames ==
    /\ timestamp + SlowFrame <= MaxTicks * SlowFrame
    /\ gameLoop(timestamp + SlowFrame)

NextTerrain ==
    \/ TerrainFrames
    \/ \E seed \in AllSeeds : resetGame(seed)

SpecTerrain == InitTerrain /\ [][NextTerrain]_vars

(* A fourth environment for long runs: only obelisks placed, on cells of *)
(* one row, and then nothing but ticks.                                  *)
MaxGrowthTicks == 25

GrowthCells == {Cell(5, 5), Cell(6, 5), Cell(7, 5)}

GrowthPlacements ==
    {objs \in TerrainPlacements :
        \A k \in 1 .. Len(objs) :
            /\ objs[k].type = "obelisk"
            /\ Cell(objs[k].x, objs[k].y) \in GrowthCells}

InitGrowth ==
    /\ \E seed \in AllSeeds : map = generatedMaps[seed]
    /\ objects \in GrowthPlacements
    /\ selectedTool = IF objects = << >> THEN null ELSE "obelisk"
    /\ selectedButtons = IF objects = << >> THEN {} ELSE {"obelisk"}
    /\ hoveredTile = IF objects = << >> THEN nullTile
                     ELSE Cell(objects[Len(objects)].x, objects[Len(objects)].y)
    /\ lastUpdateTime = 0
    /\ rotation = 0
    /\ message = IF objects = << >> THEN "" ELSE selectedMessage("obelisk")
    /\ timestamp = 0

GrowthFrames ==
    /\ timestamp + SlowFrame <= MaxGrowthTicks * SlowFrame
    /\ gameLoop(timestamp + SlowFrame)

NextGrowth == GrowthFrames

SpecGrowth == InitGrowth /\ [][NextGrowth]_vars

(* A fifth environment for the frame clock: at most one object placed,   *)
(* then frames that come after a short, a long or a very long pause (a   *)
(* browser holds the frame callbacks back while the page is hidden).     *)
MaxClockFrames == 8

StallFrame == 2 * updateInterval + 100

FramePeriods == {FastFrame, SlowFrame, StallFrame}

ClockPlacements == {objs \in TerrainPlacements : Len(objs) <= 1}

InitClock ==
    /\ map = generatedMaps[0]
    /\ objects \in ClockPlacements
    /\ selectedTool = IF objects = << >> THEN null ELSE objects[1].type
    /\ selectedButtons = IF objects = << >> THEN {} ELSE {objects[1].type}
    /\ hoveredTile = IF objects = << >> THEN nullTile
                     ELSE Cell(objects[1].x, objects[1].y)
    /\ lastUpdateTime = 0
    /\ rotation = 0
    /\ message = IF objects = << >> THEN ""
                 ELSE selectedMessage(objects[1].type)
    /\ timestamp = 0

ClockFrames ==
    \E period \in FramePeriods :
        /\ timestamp + period <= MaxClockFrames * FastFrame
        /\ gameLoop(timestamp + period)

NextClock == ClockFrames

SpecClock == InitClock /\ [][NextClock]_vars

(* A sixth environment for the hovered cell: every handler, one tool, and *)
(* a pointer that, whenever it moves over the canvas, comes to rest on    *)
(* one and the same screen position, so that the last pointer position    *)
(* is known in every state in which a cell is hovered.                    *)
MaxHoverTicks == 1

HoverPoint ==
    [x |-> canvasWidth \div 2, y |-> canvasTopOffset + 7 * heightStep]

(* The tools picked there: one that changes heights, one that changes   *)
(* tile types                                                            *)
HoverTools == {"obelisk", "fountain"}

HoverFrames ==
    /\ timestamp + SlowFrame <= MaxHoverTicks * SlowFrame
    /\ gameLoop(timestamp + SlowFrame)

NextHover ==
    \/ handleCanvasMouseMove(HoverPoint.x, HoverPoint.y)
    \/ handleCanvasMouseLeave
    \/ handleCanvasClick
    \/ \E tool \in HoverTools : handleToolSelect(tool)
    \/ \E seed \in PickSeeds : resetGame(seed)
    \/ rotateLeft
    \/ rotateRight
    \/ HoverFrames

SpecHover == InitPick /\ [][NextHover]_vars

---------------------------------------------------------------------------
(* Properties *)

(* C1: for every grid point (x, y) and every rotation the view can be in,  *)
(* getInverseRotatedCoords applied to getRotatedCoords(x, y) gives back    *)
(* exactly (x, y).                                                         *)
C1_RotationRoundTrip ==
    \A x \in Idx : \A y \in Idx :
        LET r == getRotatedCoords(x, y)
        IN  getInverseRotatedCoords(r.x, r.y) = Cell(x, y)

(* C1 witness: the view is rotated by 270 degrees, where the transform is  *)
(* not its own inverse, and a point off both diagonals makes the trip.     *)
C1_Witness ==
    /\ rotation = 3
    /\ getRotatedCoords(2, 5) = Cell(5, 13)
    /\ getInverseRotatedCoords(5, 13) = Cell(2, 5)

(* C2: no two entries of the object list have the same (x, y) cell.        *)
C2_OneObjectPerCell ==
    \A i \in 1 .. Len(objects) : \A j \in 1 .. Len(objects) :
        i # j => (objects[i].x # objects[j].x \/ objects[i].y # objects[j].y)

(* C2 witness: two objects are placed, a tick has run, the view is         *)
(* rotated, and a click on an occupied cell has just been refused.         *)
C2_Witness ==
    /\ Len(objects) >= 2
    /\ message = OccupiedMessage
    /\ lastUpdateTime > 0
    /\ rotation # 0

(* C6: from any rotation state four rotate-right commands lead back to it, *)
(* so do four rotate-left commands, and one rotate-left undoes one         *)
(* rotate-right.                                                           *)
C6_RotateFourTimes ==
    /\ rotatedRight(rotatedRight(rotatedRight(rotatedRight(rotation)))) = rotation
    /\ rotatedLeft(rotatedLeft(rotatedLeft(rotatedLeft(rotation)))) = rotation
    /\ rotatedLeft(rotatedRight(rotation)) = rotation

(* C6 witness: the rotation state where rotate-right wraps around.         *)
C6_Witness ==
    /\ rotation = 3
    /\ rotatedRight(rotation) = 0
    /\ rotatedLeft(0) = 3

(* The effect the data model fixes for each kind of object *)
effectOfKind ==
    [fountain |-> "raise_water", excavator |-> "lower_terrain",
     obelisk |-> "raise_terrain", tree |-> "spread_grass"]

(* C9: a click with a tool selected and a cell hovered, on an occupied     *)
(* cell, shows the already-occupied notification and leaves objects, map,  *)
(* rotation and tool as they are; on a free cell it appends exactly one    *)
(* object at the end of the list, with the hovered cell, the selected kind *)
(* and the effect that belongs to the kind.                                *)
C9_PlaceObject ==
    [][(handleCanvasClick /\ selectedTool # null /\ hoveredTile # nullTile) =>
          IF \E k \in 1 .. Len(objects) :
                  objects[k].x = hoveredTile.x /\ objects[k].y = hoveredTile.y
          THEN /\ message' = OccupiedMessage
               /\ UNCHANGED <<objects, map, rotation, selectedTool>>
          ELSE /\ objects' = objects \o
                     << [x |-> hoveredTile.x, y |-> hoveredTile.y,
                         type |-> selectedTool,
                         effect |-> effectOfKind[selectedTool]] >>
               /\ UNCHANGED <<map, rotation, selectedTool, message>>]_vars

(* C9 witness: both cells hold an object, an excavator placed first and an *)
(* obelisk after it, and a further click has been refused.                 *)
C9_Witness ==
    /\ Len(objects) = 2
    /\ objects[1].type = "excavator" /\ objects[1].effect = "lower_terrain"
    /\ objects[2].type = "obelisk" /\ objects[2].effect = "raise_terrain"
    /\ message = OccupiedMessage

(* C8: a pointer move to the exact middle of a cell's top face, as the     *)
(* cell is projected under the current rotation and terrain, makes that    *)
(* cell the hovered one.                                                   *)
C8_PickTileCentre ==
    [][\A c \in PointerCells :
          handleCanvasMouseMove(tileCentre(c).x, tileCentre(c).y)
              => hoveredTile' = c]_vars

(* What generateMap must leave: a full 16 x 16 grid, Water of height 0    *)
(* within Manhattan distance 3 of the centre, Grass of height 1 or 2       *)
(* everywhere else.                                                        *)
LakeInvariant(m) ==
    /\ DOMAIN m = 0 .. 15
    /\ \A y \in 0 .. 15 :
        /\ DOMAIN m[y] = 0 .. 15
        /\ \A x \in 0 .. 15 :
            IF Abs(x - 8) + Abs(y - 8) < 3
            THEN m[y][x] = [type |-> WATER, height |-> 0]
            ELSE m[y][x].type = GRASS /\ m[y][x].height \in {1, 2}

(* C3: the map generateMap leaves, at start-up and after every reset,      *)
(* whatever the random heights, satisfies the lake invariant.              *)
C3_GenerateMapLake ==
    /\ LakeInvariant(map)
    /\ [][(\E seed \in AllSeeds : resetGame(seed)) => LakeInvariant(map')]_vars

(* C3 witness: the objects placed at the start are gone, so a reset has    *)
(* regenerated the terrain after ticks ran, and the new terrain has both   *)
(* heights.                                                                *)
C3_Witness ==
    /\ objects = << >> /\ message # "" /\ lastUpdateTime > 0
    /\ LakeInvariant(map)
    /\ \E x \in Idx : \E y \in Idx : map[y][x].height = 1
    /\ \E x \in Idx : \E y \in Idx : map[y][x].height = 2

(* A step in which updateMap ran: gameLoop stamps lastUpdateTime with it *)
Ticked == lastUpdateTime' # lastUpdateTime

(* The in-grid cells that share an edge with cell (cx, cy) *)
Adjacent(cx, cy) ==
    {n \in [x : Idx, y : Idx] : Abs(n.x - cx) + Abs(n.y - cy) = 1}

(* The deltas object k produces for cell n in a tick that starts now *)
DeltasOn(k, n) ==
    SelectSeq(objectChanges(map, objects[k]), LAMBDA d : d.x = n.x /\ d.y = n.y)

(* Does an object other than k produce a delta for cell n? *)
OthersTarget(k, n) ==
    \E j \in 1 .. Len(objects) : j # k /\ DeltasOn(j, n) # << >>

(* C4: in every tick, each obelisk gives each in-grid 4-neighbour that is  *)
(* below ownerHeight + 2 one delta, to its pre-tick height + 1, which is   *)
(* at most ownerHeight + 2, and gives a neighbour at or above              *)
(* ownerHeight + 2 no delta; where no other object targets the neighbour   *)
(* the tick leaves it at exactly that height.                              *)
C4_RaiseTerrainClamp ==
    [][Ticked =>
        \A k \in 1 .. Len(objects) :
            objects[k].effect = "raise_terrain" =>
                \A n \in Adjacent(objects[k].x, objects[k].y) :
                    LET owner == map[objects[k].y][objects[k].x].height
                        h == map[n.y][n.x].height
                        ds == DeltasOn(k, n)
                    IN  IF h < owner + 2
                        THEN /\ Len(ds) = 1
                             /\ ds[1].hasHeight /\ ds[1].height = h + 1
                             /\ ~ds[1].hasType
                             /\ ds[1].height <= owner + 2
                             /\ ~OthersTarget(k, n) =>
                                   map'[n.y][n.x] =
                                       [map[n.y][n.x] EXCEPT !.height = h + 1]
                        ELSE /\ ds = << >>
                             /\ ~OthersTarget(k, n) =>
                                   map'[n.y][n.x] = map[n.y][n.x]]_vars

(* C4 witness: a lone obelisk, three or more ticks, and a neighbour that   *)
(* stands at ownerHeight + 2, above anything generateMap makes.            *)
C4_Witness ==
    /\ Len(objects) = 1 /\ objects[1].effect = "raise_terrain"
    /\ lastUpdateTime >= 3 * SlowFrame
    /\ \E n \in Adjacent(objects[1].x, objects[1].y) :
        /\ map[n.y][n.x].height = map[objects[1].y][objects[1].x].height + 2
        /\ map[n.y][n.x].height >= 3

(* C5: every tile height is an integer >= 0, and an excavator gives each   *)
(* in-grid 4-neighbour of positive height one delta, to its height - 1,    *)
(* and a neighbour of height 0 none.                                       *)
C5_HeightsNonNegative ==
    /\ \A y \in Idx : \A x \in Idx : map[y][x].height \in Nat
    /\ \A k \in 1 .. Len(objects) :
        objects[k].effect = "lower_terrain" =>
            \A n \in Adjacent(objects[k].x, objects[k].y) :
                LET h == map[n.y][n.x].height
                    ds == DeltasOn(k, n)
                IN  IF h > 0
                    THEN /\ Len(ds) = 1
                         /\ ds[1].hasHeight /\ ds[1].height = h - 1
                         /\ ~ds[1].hasType
                    ELSE ds = << >>

(* C5 witness: a lone excavator has brought a grass neighbour down to 0    *)
(* and further ticks have run.                                             *)
C5_Witness ==
    /\ Len(objects) = 1 /\ objects[1].effect = "lower_terrain"
    /\ lastUpdateTime >= 3 * SlowFrame
    /\ \E n \in Adjacent(objects[1].x, objects[1].y) :
        map[n.y][n.x] = [type |-> GRASS, height |-> 0]

(* C7: after a tick, a fountain's in-grid 4-neighbour that was not Water   *)
(* is Water at the fountain's own pre-tick tile height, provided no other  *)
(* object's delta targets it; a neighbour that was Water gets no delta     *)
(* from the fountain.                                                      *)
C7_FountainFloods ==
    [][Ticked =>
        \A k \in 1 .. Len(objects) :
            objects[k].effect = "raise_water" =>
                \A n \in Adjacent(objects[k].x, objects[k].y) :
                    IF map[n.y][n.x].type # WATER
                    THEN ~OthersTarget(k, n) =>
                            map'[n.y][n.x] =
                                [type |-> WATER,
                                 height |-> map[objects[k].y][objects[k].x].height]
                    ELSE /\ DeltasOn(k, n) = << >>
                         /\ ~OthersTarget(k, n) =>
                               map'[n.y][n.x] = map[n.y][n.x]]_vars

(* C7 witness: the scenario of the specification, one tick after a lone    *)
(* fountain went onto (5,5): the fountain stands on height-1 Grass and     *)
(* (6,5) is Water of height 1.                                             *)
C7_Witness ==
    /\ objects = << [x |-> 5, y |-> 5, type |-> "fountain",
                     effect |-> "raise_water"] >>
    /\ lastUpdateTime = SlowFrame
    /\ map[5][5] = [type |-> GRASS, height |-> 1]
    /\ map[5][6] = [type |-> WATER, height |-> 1]

(* The deltas of a tick that starts now, object by object, every object   *)
(* reading the map as it is now.                                           *)
PreTickDeltas == [k \in 1 .. Len(objects) |-> objectChanges(map, objects[k])]

(* The tile a tick leaves on cell (cx, cy) when the deltas ch are written  *)
(* in order after all were computed: per field, the last delta that        *)
(* carries the field decides.                                              *)
BatchedTile(ch, cx, cy) ==
    LET writers(hasField(_)) ==
            {p \in {<<k, i>> : k \in DOMAIN ch, i \in 1 .. 4} :
                /\ p[2] <= Len(ch[p[1]])
                /\ ch[p[1]][p[2]].x = cx /\ ch[p[1]][p[2]].y = cy
                /\ hasField(ch[p[1]][p[2]])}
        last(S) == CHOOSE p \in S : \A q \in S :
                        q[1] < p[1] \/ (q[1] = p[1] /\ q[2] <= p[2])
        hw == writers(LAMBDA d : d.hasHeight)
        tw == writers(LAMBDA d : d.hasType)
    IN  [type   |-> IF tw = {} THEN map[cy][cx].type
                    ELSE ch[last(tw)[1]][last(tw)[2]].type,
         height |-> IF hw = {} THEN map[cy][cx].height
                    ELSE ch[last(hw)[1]][last(hw)[2]].height]

(* C10: a tick is batched: every delta is computed from the pre-tick map   *)
(* and the deltas are applied only after all are collected, so each cell   *)
(* ends as the pre-tick deltas alone dictate, and a cell no pre-tick delta *)
(* targets is unchanged.                                                   *)
C10_BatchedTick ==
    [][Ticked =>
        LET ch == PreTickDeltas
            targets == UNION {{Cell(ch[k][i].x, ch[k][i].y) :
                                  i \in 1 .. Len(ch[k])} : k \in DOMAIN ch}
        IN  \A y \in Idx : \A x \in Idx :
                map'[y][x] = IF Cell(x, y) \in targets
                             THEN BatchedTile(ch, x, y)
                             ELSE map[y][x]]_vars

(* C10 witness: after the first tick a fountain's neighbour is Water at    *)
(* the height the fountain's tile had before the tick, while an obelisk    *)
(* earlier in the list has raised the fountain's own tile in that tick.    *)
C10_Witness ==
    /\ lastUpdateTime = SlowFrame
    /\ \E k \in 1 .. Len(objects) : \E j \in 1 .. Len(objects) :
        /\ j < k
        /\ objects[k].effect = "raise_water"
        /\ objects[j].effect = "raise_terrain"
        /\ Cell(objects[k].x, objects[k].y)
               \in Adjacent(objects[j].x, objects[j].y)
        /\ \E n \in Adjacent(objects[k].x, objects[k].y) :
            /\ map[n.y][n.x].type = WATER
            /\ map[n.y][n.x].height + 1 = map[objects[k].y][objects[k].x].height

(* The places <<object, entry>> of the pre-tick deltas ch that target the  *)
(* cell (cx, cy), and the one that comes last in iteration order.          *)
DeltaPlaces(ch, cx, cy) ==
    {p \in {<<k, i>> : k \in DOMAIN ch, i \in 1 .. 4} :
        /\ p[2] <= Len(ch[p[1]])
        /\ ch[p[1]][p[2]].x = cx /\ ch[p[1]][p[2]].y = cy}

LastPlace(S) ==
    CHOOSE p \in S : \A q \in S : q[1] < p[1] \/ (q[1] = p[1] /\ q[2] <= p[2])

(* The cells that two or more of the pre-tick deltas ch target *)
ContestedCells(ch) ==
    {c \in UNION {{Cell(ch[k][i].x, ch[k][i].y) : i \in 1 .. Len(ch[k])} :
                      k \in DOMAIN ch} :
        Cardinality(DeltaPlaces(ch, c.x, c.y)) >= 2}

(* C11 as stated: where several deltas of a tick target one cell, the cell *)
(* ends as its pre-tick tile with only the last of them applied.           *)
C11_LastDeltaAlone ==
    [][Ticked =>
        LET ch == PreTickDeltas
        IN  \A c \in ContestedCells(ch) :
                LET p == LastPlace(DeltaPlaces(ch, c.x, c.y))
                    d == ch[p[1]][p[2]]
                    pre == map[c.y][c.x]
                IN  map'[c.y][c.x] =
                        [type   |-> IF d.hasType THEN d.type ELSE pre.type,
                         height |-> IF d.hasHeight THEN d.height
                                    ELSE pre.height]]_vars

(* C11 amended: where several deltas of a tick target one cell, the last   *)
(* one wins field by field: the cell's height is that of the last delta    *)
(* that carries a height, its type that of the last delta that carries a   *)
(* type, and a field none of them carries keeps its pre-tick value.        *)
C11_LastDeltaPerField ==
    [][Ticked =>
        LET ch == PreTickDeltas
        IN  \A c \in ContestedCells(ch) :
                LET places == DeltaPlaces(ch, c.x, c.y)
                    hp == {p \in places : ch[p[1]][p[2]].hasHeight}
                    tp == {p \in places : ch[p[1]][p[2]].hasType}
                IN  /\ map'[c.y][c.x].height =
                           IF hp = {} THEN map[c.y][c.x].height
                           ELSE ch[LastPlace(hp)[1]][LastPlace(hp)[2]].height
                    /\ map'[c.y][c.x].type =
                           IF tp = {} THEN map[c.y][c.x].type
                           ELSE ch[LastPlace(tp)[1]][LastPlace(tp)[2]].type]_vars

(* C11 witness: a fountain on (5,5) and, after it in the list, an obelisk  *)
(* on (7,5) both targeted the height-1 Grass cell (6,5) in the first tick: *)
(* it is Water from the fountain's delta at height 2 from the obelisk's.   *)
C11_Witness ==
    /\ objects = << [x |-> 5, y |-> 5, type |-> "fountain",
                     effect |-> "raise_water"],
                    [x |-> 7, y |-> 5, type |-> "obelisk",
                     effect |-> "raise_terrain"] >>
    /\ lastUpdateTime = SlowFrame
    /\ map[5][5].height = 1
    /\ map[5][6] = [type |-> WATER, height |-> 2]

(* C12: from any state, whatever objects were placed, whatever tool and    *)
(* cell were active and however the terrain was changed by ticks, a reset  *)
(* leaves no object, no selected tool, no hovered cell and a terrain that  *)
(* satisfies the lake invariant.                                           *)
C12_ResetClears ==
    [][(\E seed \in AllSeeds : resetGame(seed)) =>
          /\ objects' = << >>
          /\ selectedTool' = null
          /\ hoveredTile' = nullTile
          /\ LakeInvariant(map')]_vars

(* C12 witness: a tool had been selected and a tick had run, and now the   *)
(* tool, the hovered cell and the objects are cleared and the terrain is   *)
(* fresh: the tile (5,5), which the tick of an obelisk on (6,5) raises,    *)
(* is back at its generated height.                                        *)
C12_Witness ==
    /\ message = selectedMessage("obelisk")
    /\ lastUpdateTime = SlowFrame
    /\ objects = << >> /\ selectedTool = null /\ hoveredTile = nullTile
    /\ LakeInvariant(map)
    /\ map = generatedMaps[3]

(* Pointer positions on the view column through the cells (4,4) and (5,5)  *)
(* of the unrotated view: middles of top faces, points where two raised    *)
(* diamonds overlap, corner points that lie on a diamond's border, the top *)
(* corner of the whole grid and a point off the grid.                      *)
PickPoints ==
    {[x |-> 544, y |-> 212], [x |-> 544, y |-> 220], [x |-> 544, y |-> 156],
     [x |-> 576, y |-> 212], [x |-> 544, y |-> 68], [x |-> 544, y |-> 69],
     [x |-> 544, y |-> 52], [x |-> 544, y |-> 53], [x |-> 0, y |-> 0]}

(* The pointer is strictly inside the top-face diamond of view cell        *)
(* (vx, vy), the diamond being lifted by the height of the tile shown      *)
(* there: with dx, dy the offsets from the diamond's middle, the two       *)
(* normalized axes are dx/32 + dy/16 and dy/16 - dx/32.                    *)
InDiamond(vx, vy, p) ==
    LET shown == getRotatedCoords(vx, vy)
        dx == p.x - ((vx - vy) * 32 + canvasWidth \div 2)
        dy == (p.y - 100) - ((vx + vy) * 16 - map[shown.y][shown.x].height * heightStep)
    IN  /\ Abs(dx + 2 * dy) < 32
        /\ Abs(2 * dy - dx) < 32

C14_ClickWithoutTool ==
    [][(handleCanvasClick /\ selectedTool = null) =>
          /\ message' = NoToolMessage
          /\ UNCHANGED <<objects, map, rotation, hoveredTile, selectedTool>>]_vars

(* C14 witness: the no-tool notification is showing over a state with a    *)
(* hovered cell, an object on the map and no tool, under a rotated view.   *)
C14_Witness ==
    /\ message = NoToolMessage
    /\ selectedTool = null
    /\ hoveredTile \in PointerCells
    /\ Len(objects) = 1
    /\ rotation = 2

(* C15 as stated: a click while no cell is hovered shows no notification   *)
(* and changes no game state, with or without a selected tool.             *)
C15_ClickMissSilent ==
    [][(handleCanvasClick /\ hoveredTile = nullTile) =>
          UNCHANGED <<message, objects, map, rotation, hoveredTile,
                      selectedTool>>]_vars

(* C15 amended: a click while no cell is hovered changes no game state;    *)
(* with a tool selected it shows no notification, without a tool it shows  *)
(* the no-tool notification, the tool being looked at before the cell.     *)
C15_ClickMiss ==
    [][(handleCanvasClick /\ hoveredTile = nullTile) =>
          /\ UNCHANGED <<objects, map, rotation, hoveredTile, selectedTool>>
          /\ IF selectedTool = null THEN message' = NoToolMessage
             ELSE UNCHANGED message]_vars

(* C15 witness: with no cell hovered and no tool, a click on the start-up  *)
(* state has shown the no-tool notification and nothing else has changed.  *)
C15_Witness ==
    /\ hoveredTile = nullTile
    /\ selectedTool = null
    /\ message = NoToolMessage
    /\ objects = << >> /\ rotation = 0 /\ timestamp = 0
    /\ map = generatedMaps[0]

(* C16: a tick changes only cells that lie one step left, right, above or  *)
(* below a placed object inside the grid, never a cell reached round the   *)
(* edge or across a corner; it leaves the objects, the rotation, the tool  *)
(* and the hovered cell as they were, and with no object placed it leaves  *)
(* the whole map as it was.                                                *)
C16_TickFrame ==
    [][Ticked =>
          /\ \A x \in Idx : \A y \in Idx :
                map'[y][x] # map[y][x] =>
                    \E k \in 1 .. Len(objects) :
                        Abs(x - objects[k].x) + Abs(y - objects[k].y) = 1
          /\ UNCHANGED <<objects, rotation, selectedTool, hoveredTile>>
          /\ (objects = << >> => map' = map)]_vars

(* C16 witness: an obelisk in the corner (0,0) has raised its two in-grid  *)
(* neighbours in the first tick; its own cell, the cells across the edges  *)
(* and the diagonal cell are as generated; the tool and the hovered cell   *)
(* of the placement are still there.                                       *)
C16_Witness ==
    /\ objects = << [x |-> 0, y |-> 0, type |-> "obelisk",
                     effect |-> "raise_terrain"] >>
    /\ lastUpdateTime = SlowFrame
    /\ selectedTool = "obelisk" /\ hoveredTile = Cell(0, 0)
    /\ map[0][1].height = 2 /\ map[1][0].height = 2
    /\ map[0][0].height = 1 /\ map[1][1].height = 1
    /\ map[0][15].height = 1 /\ map[15][0].height = 1

(* C17: in every reachable state the rotation is 0, 1, 2 or 3, whatever    *)
(* rotate-left and rotate-right commands and other events came before.     *)
C17_RotationInRange == rotation \in {0, 1, 2, 3}

(* C17 witness: the view is at rotation 3, the value rotate-left reaches   *)
(* from 0 and rotate-right wraps from, with objects placed, a tool         *)
(* selected and a refused click in between.                                *)
C17_Witness ==
    /\ rotation = 3
    /\ selectedTool # null
    /\ Len(objects) = 2
    /\ message = OccupiedMessage
    /\ timestamp = FastFrame

(* C18: a step that changes the rotation is a rotate-left or rotate-right  *)
(* command and changes nothing else; a reset, a frame with or without a    *)
(* tick, a pointer move or leave, a click and a tool selection leave the   *)
(* rotation as it was, so a reset does not turn the view back to 0.        *)
C18_OnlyRotateCommands ==
    [][/\ rotation' # rotation => (rotateLeft \/ rotateRight)
       /\ (\/ \E seed \in AllSeeds : resetGame(seed)
           \/ timestamp' # timestamp
           \/ hoveredTile' # hoveredTile
           \/ handleCanvasMouseLeave
           \/ handleCanvasClick
           \/ \E tool \in ToolNames : handleToolSelect(tool))
          => rotation' = rotation]_vars

(* C18 witness: after a tick and a reset, which cleared the obelisk tool   *)
(* and the objects, the view is still turned.                              *)
C18_Witness ==
    /\ rotation = 2
    /\ objects = << >> /\ selectedTool = null /\ hoveredTile = nullTile
    /\ message = selectedMessage("obelisk")
    /\ lastUpdateTime = SlowFrame

(* C19: after a tick, a tree's in-grid 4-neighbour that was not Grass is   *)
(* Grass at its own pre-tick height, provided no other object's delta      *)
(* targets it; a neighbour that was Grass gets no delta from the tree and, *)
(* with no other object targeting it, is as it was.                        *)
C19_TreeSpreadsGrass ==
    [][Ticked =>
        \A k \in 1 .. Len(objects) :
            objects[k].effect = "spread_grass" =>
                \A n \in Adjacent(objects[k].x, objects[k].y) :
                    IF map[n.y][n.x].type # GRASS
                    THEN ~OthersTarget(k, n) =>
                            map'[n.y][n.x] =
                                [type |-> GRASS,
                                 height |-> map[n.y][n.x].height]
                    ELSE /\ DeltasOn(k, n) = << >>
                         /\ ~OthersTarget(k, n) =>
                               map'[n.y][n.x] = map[n.y][n.x]]_vars

(* C19 witness: on checkerboard terrain a fountain on (5,5), height 1, and *)
(* a tree on (7,5); the first tick flooded (6,5), generated at height 2,   *)
(* to Water of height 1, the second tick made it Grass at that height 1;   *)
(* the tree's Grass neighbour (8,5) is as generated.                       *)
C19_Witness ==
    /\ objects = << [x |-> 5, y |-> 5, type |-> "fountain",
                     effect |-> "raise_water"],
                    [x |-> 7, y |-> 5, type |-> "tree",
                     effect |-> "spread_grass"] >>
    /\ lastUpdateTime = 2 * SlowFrame
    /\ map[5][5].height = 1
    /\ map[5][6] = [type |-> GRASS, height |-> 1]
    /\ map[5][8] = [type |-> GRASS, height |-> 2]

(* C20: with the placed objects fixed, tile heights stay bounded however   *)
(* many ticks run; the ceiling taken here is the one the canvas is laid    *)
(* out for, the levels that fit into its extra height for tall maps.       *)
C20_HeightsBounded ==
    \A y \in Idx : \A x \in Idx :
        map[y][x].height * heightStep <= canvasExtraHeight

(* C21: a frame runs the tick exactly when its timestamp is more than the  *)
(* update interval past the previous tick, once, and stamps the tick with  *)
(* the frame's timestamp; and the ticks keep the fixed interval whatever   *)
(* the pace of the frames, of which the least that follows is taken here:  *)
(* between two consecutive ticks no two whole intervals go by.             *)
C21_FixedInterval ==
    [][timestamp' # timestamp =>
          /\ Ticked <=> timestamp' - lastUpdateTime > updateInterval
          /\ Ticked =>
                /\ lastUpdateTime' = timestamp'
                /\ map' = updateMap(map, objects)
                /\ lastUpdateTime' - lastUpdateTime > updateInterval
                /\ lastUpdateTime # 0 =>
                      lastUpdateTime' - lastUpdateTime < 2 * updateInterval
          /\ ~Ticked => map' = map]_vars

(* A step in which a click has put an object on the map *)
Placed == Len(objects') = Len(objects) + 1

(* C22 as stated: the hovered cell changes only by a pointer move, which   *)
(* recomputes it, and by a pointer leave and a reset, which clear it, and  *)
(* whenever a click places an object, the cell it goes on is the one       *)
(* screenToIso gives for the last pointer position under the rotation and  *)
(* the terrain of the moment of the click.                                 *)
C22_ClickUnderPointer ==
    [][/\ hoveredTile' # hoveredTile =>
            \/ handleCanvasMouseMove(HoverPoint.x, HoverPoint.y)
            \/ handleCanvasMouseLeave
            \/ \E seed \in AllSeeds : resetGame(seed)
       /\ Placed =>
            Cell(objects'[Len(objects')].x, objects'[Len(objects')].y)
                = screenToIso(HoverPoint.x, HoverPoint.y)]_vars

(* C22 amended: the hovered cell changes only by a pointer move, which     *)
(* recomputes it from the rotation, the terrain and the pointer position   *)
(* of that moment, and by a pointer leave and a reset, which clear it; a   *)
(* rotation, a tick, a click and a tool selection leave it as stored, and  *)
(* whenever a click places an object, the cell it goes on is the stored    *)
(* hovered cell.                                                           *)
C22_ClickOnStoredCell ==
    [][/\ hoveredTile' # hoveredTile =>
            \/ handleCanvasMouseMove(HoverPoint.x, HoverPoint.y)
            \/ handleCanvasMouseLeave
            \/ \E seed \in AllSeeds : resetGame(seed)
       /\ handleCanvasMouseMove(HoverPoint.x, HoverPoint.y) =>
            hoveredTile' = screenToIso(HoverPoint.x, HoverPoint.y)
       /\ (handleCanvasMouseLeave \/ \E seed \in AllSeeds : resetGame(seed)) =>
            hoveredTile' = nullTile
       /\ (rotateLeft \/ rotateRight \/ timestamp' # timestamp
              \/ handleCanvasClick
              \/ \E tool \in ToolNames : handleToolSelect(tool)) =>
            hoveredTile' = hoveredTile
       /\ Placed =>
            /\ hoveredTile # nullTile
            /\ Cell(objects'[Len(objects')].x, objects'[Len(objects')].y)
                 = hoveredTile]_vars

(* C22 witness: an object stands on the hovered cell, the view has been    *)
(* turned half round, and the pointer position now picks another cell      *)
(* than the one still stored as hovered.                                   *)
C22_Witness ==
    /\ Len(objects) = 1
    /\ hoveredTile = Cell(objects[1].x, objects[1].y)
    /\ rotation = 2
    /\ screenToIso(HoverPoint.x, HoverPoint.y) # nullTile
    /\ screenToIso(HoverPoint.x, HoverPoint.y) # hoveredTile

(* C23: at most one tool is selected, in the program's state and on the    *)
(* tool buttons alike; a tool selection of another tool than the active    *)
(* one, or with none active, makes that tool the only selected one, a      *)
(* selection of the active tool leaves none selected, and a click, placing *)
(* an object or not, leaves the selection as it was.                       *)
C23_OneToolSelected ==
    /\ selectedTool \in ToolNames \cup {null}
    /\ selectedButtons = IF selectedTool = null THEN {} ELSE {selectedTool}
    /\ [][/\ \A tool \in ToolNames :
                handleToolSelect(tool) =>
                    /\ selectedTool' = IF selectedTool = tool THEN null ELSE tool
                    /\ selectedButtons' =
                           IF selectedTool = tool THEN {} ELSE {tool}
          /\ (handleCanvasClick \/ Placed) =>
                UNCHANGED <<selectedTool, selectedButtons>>]_vars

(* C23 witness: a fountain was placed, then the tree tool was selected in  *)
(* place of the fountain tool and a tree was placed; the tree tool is      *)
(* still the selected one, and its button the only selected button.        *)
C23_Witness ==
    /\ Len(objects) = 2
    /\ objects[1].type = "fountain" /\ objects[2].type = "tree"
    /\ selectedTool = "tree"
    /\ selectedButtons = {"tree"}

(* The height of the tile shown at the view cell (vx, vy) under the        *)
(* current rotation, 0 where the view cell lies beyond the grid.           *)
ShownHeight(vx, vy) ==
    IF vx \in Idx /\ vy \in Idx
    THEN map[getRotatedCoords(vx, vy).y][getRotatedCoords(vx, vy).x].height
    ELSE 0

(* C24: for every view cell, under the current rotation and terrain, each  *)
(* renderer fills at most two side walls, one against the view cell x + 1  *)
(* and one against the view cell y + 1, each exactly when the tile is      *)
(* strictly higher than that neighbour (0 beyond the grid edge), as high   *)
(* as the difference; the two renderers agree on the wall heights, and at  *)
(* rotation 0 on the faces they fill.                                      *)
C24_SideWalls ==
    \A vx \in Idx : \A vy \in Idx :
        LET h == ShownHeight(vx, vy)
            dX == h - ShownHeight(vx + 1, vy)
            dY == h - ShownHeight(vx, vy + 1)
            expected == {<<"X", dX>> : u \in IF dX > 0 THEN {1} ELSE {}}
                        \cup {<<"Y", dY>> : u \in IF dY > 0 THEN {1} ELSE {}}
            first == drawTile(vx, vy)
            second == option2_drawTile(vx, vy)
            heights(walls) ==
                {<<walls[i].axis, walls[i].diff>> : i \in DOMAIN walls}
            faces(walls) ==
                {<<walls[i].axis, walls[i].path>> : i \in DOMAIN walls}
            upright(walls) ==
                \A i \in DOMAIN walls :
                    /\ Abs(walls[i].path[2].y - walls[i].path[1].y)
                           = walls[i].diff * heightStep
                    /\ Abs(walls[i].path[3].y - walls[i].path[4].y)
                           = walls[i].diff * heightStep
        IN  /\ Len(first) = Cardinality(expected)
            /\ Len(second) = Cardinality(expected)
            /\ Len(first) \in 0 .. 2
            /\ heights(first) = expected
            /\ heights(second) = expected
            /\ upright(first) /\ upright(second)
            /\ rotation = 0 => faces(first) = faces(second)

(* C24 witness: the view is turned and a tick has raised terrain round an  *)
(* obelisk; there is a view cell with two walls, one with a single wall    *)
(* and one with none, and a wall of two levels at the grid edge.           *)
C24_Witness ==
    /\ rotation = 3
    /\ lastUpdateTime = SlowFrame /\ objects # << >>
    /\ \E vx \in Idx : \E vy \in Idx : Len(drawTile(vx, vy)) = 2
    /\ \E vx \in Idx : \E vy \in Idx : Len(option2_drawTile(vx, vy)) = 1
    /\ \E vx \in Idx : \E vy \in Idx : Len(drawTile(vx, vy)) = 0
    /\ \E vy \in Idx :
          /\ Len(option2_drawTile(15, vy)) >= 1
          /\ option2_drawTile(15, vy)[1] =
                 Wall("X", 2, drawRightSide(isoToScreen(15, vy),
                                  isoToScreen(15, vy).y - 2 * heightStep, 2))

(* Ticks that one neighbour n of a lone object obj still needs before    *)
(* the object stops changing it in map m (script.js:251-264)             *)
TicksToRest(m, obj, n) ==
    LET tile == m[obj.y][obj.x]
        neighborTile == m[n.y][n.x]
    IN  CASE obj.effect = "raise_terrain" ->
                IF neighborTile.height < tile.height + 2
                THEN tile.height + 2 - neighborTile.height ELSE 0
          [] obj.effect = "lower_terrain" -> neighborTile.height
          [] obj.effect = "raise_water" ->
                IF neighborTile.type # WATER THEN 1 ELSE 0
          [] obj.effect = "spread_grass" ->
                IF neighborTile.type # GRASS THEN 1 ELSE 0
          [] OTHER -> 0

(* C25: with exactly one placed object, every tick brings each of the    *)
(* object's neighbours one step closer to its resting tile and changes   *)
(* nothing else; a fountain's or tree's neighbours rest after one tick,  *)
(* an excavator's neighbours step down by one to height 0, an obelisk's  *)
(* neighbours below ownerHeight + 2 step up by one to exactly            *)
(* ownerHeight + 2; once all neighbours rest a tick leaves the map       *)
(* unchanged, which happens by the fourth tick on generated terrain.     *)
C25_LoneObjectSettles ==
    [][(Ticked /\ Len(objects) = 1) =>
        LET obj == objects[1]
            near == Adjacent(obj.x, obj.y)
            owner == map[obj.y][obj.x]
        IN  /\ objects' = objects
            /\ map'[obj.y][obj.x] = owner
            /\ \A y \in Idx : \A x \in Idx :
                Cell(x, y) \notin near => map'[y][x] = map[y][x]
            /\ \A n \in near :
                LET before == map[n.y][n.x]
                    after == map'[n.y][n.x]
                    rest == TicksToRest(map, obj, n)
                IN  /\ TicksToRest(map', obj, n) =
                            IF rest > 0 THEN rest - 1 ELSE 0
                    /\ rest = 0 => after = before
                    /\ obj.effect \in {"raise_water", "spread_grass"} =>
                            TicksToRest(map', obj, n) = 0
                    /\ (obj.effect = "lower_terrain" /\ rest > 0) =>
                            after.height = before.height - 1
                    /\ (obj.effect = "raise_terrain" /\ rest > 0) =>
                            /\ after.height = before.height + 1
                            /\ after.height <= owner.height + 2
            /\ (\A n \in near : TicksToRest(map, obj, n) = 0) => map' = map
            /\ lastUpdateTime >= 3 * SlowFrame => map' = map]_vars

(* A lone excavator on an inner cell whose four neighbours are all at    *)
(* height 0, after a tick that changed nothing                           *)
C25_Witness ==
    /\ Len(objects) = 1 /\ objects[1].effect = "lower_terrain"
    /\ Cardinality(Adjacent(objects[1].x, objects[1].y)) = 4
    /\ lastUpdateTime >= 3 * SlowFrame
    /\ \A n \in Adjacent(objects[1].x, objects[1].y) :
        map[n.y][n.x].height = 0
    /\ updateMap(map, objects) = map

InGrid(c) == c.x \in Idx /\ c.y \in Idx

(* The cells whose tiles updateMap reads: each object's own cell and the *)
(* neighbours getNeighbors returns for it (script.js:247-250)            *)
updateMapReads ==
    UNION {{Cell(objects[k].x, objects[k].y)} \cup
           {getNeighbors(objects[k].x, objects[k].y)[i] :
               i \in 1 .. Len(getNeighbors(objects[k].x, objects[k].y))} :
           k \in 1 .. Len(objects)}

(* The cells whose tiles draw reads: for every view cell the tile shown  *)
(* there and the tiles shown at x + 1 and y + 1 where drawTile looks at  *)
(* them (script.js:128-129, 136-140, 188, 222), and the hovered cell     *)
(* (script.js:201)                                                       *)
drawReads ==
    {getRotatedCoords(x, y) : x \in Idx, y \in Idx}
    \cup {getRotatedCoords(x + 1, y) : x \in 0 .. (gridSize - 2), y \in Idx}
    \cup {getRotatedCoords(x, y + 1) : x \in Idx, y \in 0 .. (gridSize - 2)}
    \cup (IF hoveredTile # nullTile THEN {hoveredTile} ELSE {})

(* C26: in every reachable state the map is a full 16x16 grid whose      *)
(* tiles are all Grass or Water, every placed object lies inside the     *)
(* grid, the hovered cell is either unset or inside the grid, and every  *)
(* cell updateMap or draw reads lies inside the grid.                    *)
C26_TypesAndCellsInRange ==
    /\ DOMAIN map = Idx
    /\ \A y \in Idx : DOMAIN map[y] = Idx
    /\ \A y \in Idx : \A x \in Idx : map[y][x].type \in {GRASS, WATER}
    /\ \A k \in 1 .. Len(objects) :
        InGrid(Cell(objects[k].x, objects[k].y))
    /\ hoveredTile = nullTile \/ InGrid(hoveredTile)
    /\ \A c \in updateMapReads : InGrid(c)
    /\ \A c \in drawReads : InGrid(c)

(* A fountain placed by a click has turned its Grass neighbours to       *)
(* Water, the view is rotated and a cell is hovered                      *)
C26_Witness ==
    /\ Len(objects) >= 1 /\ objects[1].effect = "raise_water"
    /\ lastUpdateTime > 0
    /\ rotation # 0
    /\ hoveredTile # nullTile
    /\ \A n \in Adjacent(objects[1].x, objects[1].y) :
        map[n.y][n.x].type = WATER
    /\ \E n \in Adjacent(objects[1].x, objects[1].y) :
        generatedMaps[3][n.y][n.x].type = GRASS

====
